---- MODULE Spec2Model ----
(***************************************************************************)
(* Model of build.js: the download-link resolver (generateDownloadLink),   *)
(* the existence-checked streaming downloader (downloadFile) and the       *)
(* orchestrator (installAllSoftware, run three times by main).             *)
(*                                                                         *)
(* Strings are TLA+ strings built with \o exactly where the source builds  *)
(* template literals.  A component key is kept as the sequence of its      *)
(* hyphen-separated parts, so that the /-version$/ replacement is computed *)
(* rather than assumed.  A path is the record of its directory parts and   *)
(* its file name.                                                          *)
(***************************************************************************)
EXTENDS Integers, Sequences, FiniteSets, Bags, TLC

VARIABLES
    configFile,   \* what config.json holds on disk (fixed during a run)
    pc,           \* position of main / installAllSoftware
    pass,         \* index of the installAllSoftware call made by main (1..3)
    config,       \* the value readConfig returned to the running pass
    envIdx,       \* position of the outer for-of loop over Object.entries(config)
    entryIdx,     \* position of the inner for-of loop over Object.entries(envConfig)
    attempted,    \* jobs whose try block was entered in the running pass, in order
    logged,       \* one record per console line the orchestrator wrote for a job
    exitCode,     \* -1 while running, else the process exit status
    fatal,        \* the error that reached the outer catch of installAllSoftware
    files,        \* the filesystem: path -> number of chunks the file holds
    writers,      \* bag of paths, one copy per fs.WriteStream still open on it
    dl,           \* the downloadFile call in progress (with its redirect recursion)
    succeeded,    \* destinations for which some downloadFile call has resolved
    faults,       \* environment failures injected so far
    link          \* arguments and result of the latest generateDownloadLink call

vars == <<configFile, pc, pass, config, envIdx, entryIdx, attempted, logged,
          exitCode, fatal, files, writers, dl, succeeded, faults, link>>

-----------------------------------------------------------------------------
(* Bounds *)

\* Number of environment failures (non-200 responses, redirects, network,
\* rename, mkdir and config-read errors) injected in one run.
MaxFaults == 3

\* Number of 'data' chunks a complete response body consists of.
MaxChunks == 2

-----------------------------------------------------------------------------
(* Link resolver *)

downloadPrefixes ==
    [jdk        |-> "https://github.com/shenxinli/java-release/releases/download",
     redis      |-> "https://github.com/shenxinli/redis-release/releases/download",
     postgresql |-> "https://github.com/shenxinli/postgresql-release/releases/download"]

\* downloadPrefixes is an object literal: a property read that finds no own
\* property continues on Object.prototype, whose members are functions.
ObjectPrototype ==
    [constructor |-> "function Object() { [native code] }",
     toString    |-> "function toString() { [native code] }"]

\* downloadPrefixes[software], then the test !prefix
prefixLookup_ownOnly(software) ==
    IF software \in DOMAIN downloadPrefixes
    THEN [truthy |-> TRUE, value |-> downloadPrefixes[software]]
    ELSE [truthy |-> FALSE, value |-> "undefined"]

prefixLookup(software) ==
    IF software \in DOMAIN downloadPrefixes
    THEN [truthy |-> TRUE, value |-> downloadPrefixes[software]]
    ELSE IF software \in DOMAIN ObjectPrototype
         THEN [truthy |-> TRUE, value |-> ObjectPrototype[software]]
         ELSE [truthy |-> FALSE, value |-> "undefined"]

\* the override of version at the top of generateDownloadLink
overrideVersion_keep(software, version, platform) == version

overrideVersion(software, version, platform) ==
    IF software = "redis" /\ platform = "windows" THEN "5" ELSE version

Thrown(msg) == [ok |-> FALSE, error |-> msg, url |-> "", prefix |-> "", filename |-> ""]

Returned(prefix, version, filename) ==
    [ok |-> TRUE, error |-> "",
     url |-> prefix \o "/v" \o version \o "/" \o filename,
     prefix |-> prefix, filename |-> filename]

\* the if / else-if chain that builds filename; the result is either the
\* file name or the message of the Error thrown
buildFilename(software, version, platform, arch) ==
    IF software = "postgresql" THEN
        IF platform = "windows"
        THEN [ok |-> TRUE, v |-> "postgresql-" \o version \o "-windows-" \o arch \o ".zip"]
        ELSE IF platform = "linux"
        THEN [ok |-> TRUE, v |-> "postgresql-" \o version \o "-linux-" \o arch \o ".tar.gz"]
        ELSE [ok |-> FALSE, v |-> "Unsupported platform for PostgreSQL: " \o platform]
    ELSE IF software = "redis" THEN
        IF platform = "windows"
        THEN [ok |-> TRUE, v |-> "redis-" \o version \o "-windows-" \o arch \o ".zip"]
        ELSE IF platform = "linux"
        THEN [ok |-> TRUE, v |-> "redis-" \o version \o "-linux-" \o arch \o ".tar.gz"]
        ELSE [ok |-> FALSE, v |-> "Unsupported platform for Redis: " \o platform]
    ELSE IF software = "jdk" THEN
        IF platform = "windows"
        THEN [ok |-> TRUE, v |-> "openjdk-" \o version \o "-windows-" \o arch \o ".zip"]
        ELSE IF platform = "linux"
        THEN [ok |-> TRUE, v |-> "openjdk-" \o version \o "-linux-" \o arch \o ".tar.gz"]
        ELSE [ok |-> FALSE, v |-> "Unsupported platform for JDK: " \o platform]
    ELSE [ok |-> TRUE,
          v |-> software \o "-" \o version \o "-" \o platform \o "-" \o arch \o ".tar.gz"]

generateDownloadLink(software, version, platform, arch) ==
    LET v      == overrideVersion(software, version, platform)
        prefix == prefixLookup(software)
        fname  == buildFilename(software, v, platform, arch)
    IN  IF ~prefix.truthy THEN Thrown("Unsupported software: " \o software)
        ELSE IF ~fname.ok THEN Thrown(fname.v)
        ELSE Returned(prefix.value, v, fname.v)

-----------------------------------------------------------------------------
(* JSON values, Object.entries and the component key *)

JNull == [isNull |-> TRUE, entries |-> <<>>]

JObject(entries) == [isNull |-> FALSE, entries |-> entries]

Entry(k, v) == [key |-> k, value |-> v]

\* componentKey.replace(/-version$/, '') on the hyphen-separated parts of the
\* key: the pattern matches iff the last part is "version" and a hyphen
\* precedes it.
stripVersionSuffix(parts) ==
    IF Len(parts) >= 2 /\ parts[Len(parts)] = "version"
    THEN SubSeq(parts, 1, Len(parts) - 1)
    ELSE parts

RECURSIVE joinParts(_)
joinParts(parts) ==
    IF Len(parts) = 0 THEN ""
    ELSE IF Len(parts) = 1 THEN parts[1]
    ELSE parts[1] \o "-" \o joinParts(Tail(parts))

\* The contents config.json may have.  valid = FALSE is text JSON.parse rejects.
ConfigFiles ==
    { [valid |-> TRUE, json |-> JObject(<<
          Entry("prod", JObject(<< Entry(<<"jdk", "version">>, "17"),
                                   Entry(<<"redis", "version">>, "6") >>)) >>)],
      [valid |-> TRUE, json |-> JObject(<<
          Entry("dev",  JObject(<< Entry(<<"mysql", "version">>, "8") >>)),
          Entry("prod", JObject(<< Entry(<<"postgresql", "version">>, "16") >>)) >>)],
      [valid |-> TRUE, json |-> JObject(<<
          Entry("prod", JObject(<< Entry(<<"jdk", "version">>, "17"),
                                   Entry(<<"jdk">>, "17") >>)) >>)],
      [valid |-> TRUE, json |-> JObject(<<
          Entry("dev",  JNull),
          Entry("prod", JObject(<< Entry(<<"jdk", "version">>, "17") >>)) >>)],
      [valid |-> TRUE, json |-> JObject(<<
          Entry("prod", JObject(<< Entry(<<"constructor", "version">>, "1") >>)) >>)],
      [valid |-> TRUE, json |-> JNull],
      [valid |-> FALSE, json |-> JNull] }

\* the three calls of installAllSoftware in main
Passes ==
    << [platform |-> "linux",   arch |-> "amd64"],
       [platform |-> "linux",   arch |-> "arm64"],
       [platform |-> "windows", arch |-> "x64"] >>

-----------------------------------------------------------------------------
(* Filesystem and promise helpers *)

NoPath == [dir |-> <<>>, name |-> ""]

\* path.join(__dirname, arch, envName, 'bin') and path.join(destinationDir, basename)
destinationFile(arch, envName, basename) ==
    [dir |-> <<"__dirname", arch, envName, "bin">>, name |-> basename]

\* `${destinationPath}.tmp`
tempPath(destinationPath) ==
    [destinationPath EXCEPT !.name = @ \o ".tmp"]

\* fsPromises.access(filePath, F_OK) succeeded
checkFileExists_temp(fs, filePath) == tempPath(filePath) \in DOMAIN fs

checkFileExists(fs, filePath) == filePath \in DOMAIN fs

\* fs.createWriteStream(path): flag 'w' creates the file or truncates it
openForWrite(fs, path) ==
    [p \in DOMAIN fs \cup {path} |-> IF p = path THEN 0 ELSE fs[p]]

\* one chunk piped into the file open at path
writeChunk(fs, path) ==
    IF path \in DOMAIN fs THEN [fs EXCEPT ![path] = @ + 1] ELSE fs

\* fsPromises.unlink(path), when it succeeds
unlinkFile(fs, path) ==
    [p \in DOMAIN fs \ {path} |-> fs[p]]

\* fsPromises.rename(from, to), when it succeeds
renameFile_copy(fs, from, to) ==
    [p \in DOMAIN fs \cup {to} |-> IF p = to THEN fs[from] ELSE fs[p]]

renameFile(fs, from, to) ==
    [p \in (DOMAIN fs \ {from}) \cup {to} |-> IF p = to THEN fs[from] ELSE fs[p]]

NoError == [kind |-> "", statusCode |-> 0]

Pending == [state |-> "pending", path |-> NoPath, error |-> NoError]

Resolved(path) == [state |-> "resolved", path |-> path, error |-> NoError]

Rejected(kind, code) ==
    [state |-> "rejected", path |-> NoPath, error |-> [kind |-> kind, statusCode |-> code]]

IdleDownload ==
    [st |-> "idle", url |-> "", urlValid |-> FALSE, dest |-> NoPath, redirects |-> 0,
     requests |-> 0, status |-> 0, received |-> 0, errAt |-> "",
     deletable |-> FALSE, cacheHit |-> FALSE, promise |-> Pending]

\* a call downloadFile(url, destinationPath) about to run its first statement
NewDownload(url, urlValid, dest) ==
    [IdleDownload EXCEPT !.st = "check", !.url = url, !.urlValid = urlValid, !.dest = dest]

-----------------------------------------------------------------------------
(* downloadFile                                                            *)
(*                                                                         *)
(* dl is the call the orchestrator awaits.  A 301/302 answer makes the     *)
(* callback call downloadFile again and hand its outcome to the pending    *)
(* promise, so the recursion is the same record restarted at "check" with  *)
(* redirects counted; the write stream of the redirected call stays in     *)
(* writers, since nothing closes it.  The request's 'error' event is       *)
(* delivered while the request waits for its response or streams the body. *)

\* the URL a 301/302 response names in its Location header
RedirectLocation == "https://objects.githubusercontent.com/release-asset"

\* status codes the server may answer with
Statuses == {200, 301, 302, 307, 404}

\* path.basename(downloadUrl): the text after the last "/" of the URL, which
\* is the file name generateDownloadLink appended (no argument holds a "/")
basename(linkResult) == linkResult.filename

\* https.get(url, ...) accepts the URL: it throws synchronously on a string
\* that is not an absolute URL
parsesAsUrl(linkResult) ==
    linkResult.prefix \in {downloadPrefixes[k] : k \in DOMAIN downloadPrefixes}

\* the two tests on response.statusCode in the response callback
responseKind_lax(statusCode) ==
    IF statusCode = 302 \/ statusCode = 301 THEN "redirect"
    ELSE IF statusCode >= 400 THEN "error"
    ELSE "ok"

responseKind(statusCode) ==
    IF statusCode = 302 \/ statusCode = 301 THEN "redirect"
    ELSE IF statusCode # 200 THEN "error"
    ELSE "ok"

\* the request's 'error' handler: try { await unlink(tempPath) } catch {}
errorCleanup_none(fs, path, deletable) == fs

errorCleanup(fs, path, deletable) ==
    IF deletable /\ path \in DOMAIN fs THEN unlinkFile(fs, path) ELSE fs

\* the catch block around fsPromises.rename: reject(err) and nothing else
renameFailed_cleanup(fs, path) == unlinkFile(fs, path)

renameFailed(fs, path) == fs

Settle(d, promise) == [d EXCEPT !.st = "settled", !.promise = promise]

DownloadStep(st) == pc = "download" /\ dl.st = st

OrchUnchanged ==
    UNCHANGED <<configFile, pc, pass, config, envIdx, entryIdx, attempted, logged,
                exitCode, fatal, link>>

\* checkFileExists returned true: log and return destinationPath
CacheHit ==
    /\ DownloadStep("check")
    /\ checkFileExists(files, dl.dest)
    /\ dl' = [Settle(dl, Resolved(dl.dest)) EXCEPT !.cacheHit = TRUE]
    /\ succeeded' = succeeded \cup {dl.dest}
    /\ UNCHANGED <<files, writers, faults>>
    /\ OrchUnchanged

CacheMiss ==
    /\ DownloadStep("check")
    /\ ~checkFileExists(files, dl.dest)
    /\ dl' = [dl EXCEPT !.st = "mkdir"]
    /\ UNCHANGED <<files, writers, faults, succeeded>>
    /\ OrchUnchanged

\* await fsPromises.mkdir(dirname, {recursive: true}) rejects
MkdirFails ==
    /\ DownloadStep("mkdir")
    /\ faults < MaxFaults
    /\ faults' = faults + 1
    /\ dl' = Settle(dl, Rejected("MkdirError", 0))
    /\ UNCHANGED <<files, writers, succeeded>>
    /\ OrchUnchanged

\* mkdir succeeded; fs.createWriteStream(tempPath); https.get(url, ...) inside
\* the Promise executor, where a synchronous throw rejects the promise
OpenAndRequest ==
    /\ DownloadStep("mkdir")
    /\ files' = openForWrite(files, tempPath(dl.dest))
    /\ writers' = writers (+) SetToBag({tempPath(dl.dest)})
    /\ dl' = IF dl.urlValid
             THEN [dl EXCEPT !.st = "waiting", !.requests = @ + 1]
             ELSE Settle(dl, Rejected("InvalidURL", 0))
    /\ UNCHANGED <<faults, succeeded>>
    /\ OrchUnchanged

\* the response callback runs with response.statusCode = status
Response ==
    /\ DownloadStep("waiting")
    /\ \E status \in Statuses :
        /\ status # 200 => faults < MaxFaults
        /\ faults' = IF status # 200 THEN faults + 1 ELSE faults
        /\ dl' = CASE responseKind(status) = "redirect" ->
                        [dl EXCEPT !.st = "check", !.url = RedirectLocation,
                                   !.urlValid = TRUE, !.redirects = @ + 1,
                                   !.status = status]
                   [] responseKind(status) = "error" ->
                        Settle([dl EXCEPT !.status = status],
                               Rejected("HTTPStatus", status))
                   [] OTHER ->
                        [dl EXCEPT !.st = "streaming", !.status = status]
    /\ UNCHANGED <<files, writers, succeeded>>
    /\ OrchUnchanged

\* a 'data' chunk is piped into fileStream
Data ==
    /\ DownloadStep("streaming")
    /\ dl.received < MaxChunks
    /\ files' = writeChunk(files, tempPath(dl.dest))
    /\ dl' = [dl EXCEPT !.received = @ + 1]
    /\ UNCHANGED <<writers, faults, succeeded>>
    /\ OrchUnchanged

\* response 'end': pipe ends fileStream, 'finish' fires, fileStream.close()
End ==
    /\ DownloadStep("streaming")
    /\ dl.received = MaxChunks
    /\ writers' = writers (-) SetToBag({tempPath(dl.dest)})
    /\ dl' = [dl EXCEPT !.st = "renaming"]
    /\ UNCHANGED <<files, faults, succeeded>>
    /\ OrchUnchanged

\* await fsPromises.rename(tempPath, destinationPath); resolve(destinationPath)
RenameOk ==
    /\ DownloadStep("renaming")
    /\ tempPath(dl.dest) \in DOMAIN files
    /\ files' = renameFile(files, tempPath(dl.dest), dl.dest)
    /\ dl' = Settle(dl, Resolved(dl.dest))
    /\ succeeded' = succeeded \cup {dl.dest}
    /\ UNCHANGED <<writers, faults>>
    /\ OrchUnchanged

\* rename throws: catch (err) { reject(err) }
RenameFails ==
    /\ DownloadStep("renaming")
    /\ faults < MaxFaults
    /\ faults' = faults + 1
    /\ files' = renameFailed(files, tempPath(dl.dest))
    /\ dl' = Settle(dl, Rejected("RenameError", 0))
    /\ UNCHANGED <<writers, succeeded>>
    /\ OrchUnchanged

\* the request emits 'error' while it waits for the response or while the
\* body is streaming; the handler starts with await fsPromises.unlink(tempPath)
RequestError ==
    /\ pc = "download"
    /\ dl.st \in {"waiting", "streaming"}
    /\ faults < MaxFaults
    /\ faults' = faults + 1
    /\ \E deletable \in BOOLEAN :
        dl' = [dl EXCEPT !.st = "unlinking", !.errAt = dl.st, !.deletable = deletable]
    /\ UNCHANGED <<files, writers, succeeded>>
    /\ OrchUnchanged

\* the unlink settled (its failure is swallowed); reject(err)
ErrorHandler ==
    /\ DownloadStep("unlinking")
    /\ files' = errorCleanup(files, tempPath(dl.dest), dl.deletable)
    /\ dl' = Settle(dl, Rejected("NetworkError", 0))
    /\ UNCHANGED <<writers, faults, succeeded>>
    /\ OrchUnchanged

-----------------------------------------------------------------------------
(* readConfig, installAllSoftware, main *)

NotLoaded == [loaded |-> FALSE, json |-> JNull]

NoLink ==
    [software |-> "", version |-> "", platform |-> "", arch |-> "",
     called |-> FALSE, result |-> Thrown("")]

DlUnchanged == UNCHANGED <<files, writers, dl, succeeded>>

\* process.exit(1) in the outer catch of installAllSoftware
Exit(error) ==
    /\ pc' = "exit"
    /\ exitCode' = 1
    /\ fatal' = error

\* fsPromises.readFile rejects; readConfig rethrows
ReadConfigReadError ==
    /\ pc = "readConfig"
    /\ faults < MaxFaults
    /\ faults' = faults + 1
    /\ Exit("ConfigReadError")
    /\ UNCHANGED <<configFile, pass, config, envIdx, entryIdx, attempted, logged, link>>
    /\ DlUnchanged

\* JSON.parse throws; readConfig rethrows
ReadConfigParseError ==
    /\ pc = "readConfig"
    /\ ~configFile.valid
    /\ Exit("ConfigParseError")
    /\ UNCHANGED <<configFile, pass, config, envIdx, entryIdx, attempted, logged,
                   faults, link>>
    /\ DlUnchanged

\* readConfig returns; Object.entries(config) starts the outer loop, and
\* throws a TypeError on null
ReadConfigReturns ==
    /\ pc = "readConfig"
    /\ configFile.valid
    /\ config' = [loaded |-> TRUE, json |-> configFile.json]
    /\ IF configFile.json.isNull
       THEN /\ Exit("TypeError")
            /\ UNCHANGED envIdx
       ELSE /\ pc' = "envLoop"
            /\ envIdx' = 1
            /\ UNCHANGED <<exitCode, fatal>>
    /\ UNCHANGED <<configFile, pass, entryIdx, attempted, logged, faults, link>>
    /\ DlUnchanged

\* next [envName, envConfig]; Object.entries(envConfig) starts the inner loop
\* outside the per-job try, and throws a TypeError on null
EnterEnvironment ==
    /\ pc = "envLoop"
    /\ envIdx <= Len(config.json.entries)
    /\ IF config.json.entries[envIdx].value.isNull
       THEN /\ Exit("TypeError")
            /\ UNCHANGED entryIdx
       ELSE /\ pc' = "jobLoop"
            /\ entryIdx' = 1
            /\ UNCHANGED <<exitCode, fatal>>
    /\ UNCHANGED <<configFile, pass, config, envIdx, attempted, logged, faults, link>>
    /\ DlUnchanged

\* the inner loop is exhausted
LeaveEnvironment ==
    /\ pc = "jobLoop"
    /\ entryIdx > Len(config.json.entries[envIdx].value.entries)
    /\ pc' = "envLoop"
    /\ envIdx' = envIdx + 1
    /\ UNCHANGED <<configFile, pass, config, entryIdx, attempted, logged, exitCode,
                   fatal, faults, link>>
    /\ DlUnchanged

\* one iteration of the inner loop up to the await of downloadFile, or up to
\* the catch when generateDownloadLink throws
StartJob ==
    /\ pc = "jobLoop"
    /\ entryIdx <= Len(config.json.entries[envIdx].value.entries)
    /\ LET env       == config.json.entries[envIdx]
           entry     == env.value.entries[entryIdx]
           component == joinParts(stripVersionSuffix(entry.key))
           p         == Passes[pass]
           r         == generateDownloadLink(component, entry.value, p.platform, p.arch)
       IN  /\ attempted' = Append(attempted, <<envIdx, entryIdx>>)
           /\ link' = [software |-> component, version |-> entry.value,
                       platform |-> p.platform, arch |-> p.arch,
                       called |-> TRUE, result |-> r]
           /\ IF r.ok
              THEN /\ dl' = NewDownload(r.url, parsesAsUrl(r),
                                        destinationFile(p.arch, env.key, basename(r)))
                   /\ pc' = "download"
                   /\ UNCHANGED <<entryIdx, logged>>
              ELSE /\ logged' = Append(logged, [job |-> <<envIdx, entryIdx>>,
                                                outcome |-> "failed"])
                   /\ entryIdx' = entryIdx + 1
                   /\ UNCHANGED <<dl, pc>>
    /\ UNCHANGED <<configFile, pass, config, envIdx, exitCode, fatal, faults,
                   files, writers, succeeded>>

\* the awaited downloadFile promise settled: log success, or catch and log
JobSettled ==
    /\ pc = "download"
    /\ dl.st = "settled"
    /\ logged' = Append(logged,
                        [job |-> <<envIdx, entryIdx>>,
                         outcome |-> IF dl.promise.state = "resolved"
                                     THEN "ready" ELSE "failed"])
    /\ entryIdx' = entryIdx + 1
    /\ dl' = IdleDownload
    /\ pc' = "jobLoop"
    /\ UNCHANGED <<configFile, pass, config, envIdx, attempted, exitCode, fatal,
                   faults, files, writers, succeeded, link>>

\* the outer loop is exhausted: the closing log line of installAllSoftware
PassCompleted ==
    /\ pc = "envLoop"
    /\ envIdx > Len(config.json.entries)
    /\ pc' = "passEnd"
    /\ UNCHANGED <<configFile, pass, config, envIdx, entryIdx, attempted, logged,
                   exitCode, fatal, faults, link>>
    /\ DlUnchanged

\* main: the next await installAllSoftware(...), or the end of main
MainNext ==
    /\ pc = "passEnd"
    /\ IF pass < Len(Passes)
       THEN /\ pass' = pass + 1
            /\ pc' = "readConfig"
            /\ config' = NotLoaded
            /\ envIdx' = 0
            /\ entryIdx' = 0
            /\ attempted' = <<>>
            /\ logged' = <<>>
            /\ UNCHANGED exitCode
       ELSE /\ pc' = "done"
            /\ exitCode' = 0
            /\ UNCHANGED <<pass, config, envIdx, entryIdx, attempted, logged>>
    /\ UNCHANGED <<configFile, fatal, faults, link>>
    /\ DlUnchanged

-----------------------------------------------------------------------------
(* Specifications *)

Init ==
    /\ configFile \in ConfigFiles
    /\ pc = "readConfig"
    /\ pass = 1
    /\ config = NotLoaded
    /\ envIdx = 0
    /\ entryIdx = 0
    /\ attempted = <<>>
    /\ logged = <<>>
    /\ exitCode = -1
    /\ fatal = ""
    /\ files = <<>>
    /\ writers = EmptyBag
    /\ dl = IdleDownload
    /\ succeeded = {}
    /\ faults = 0
    /\ link = NoLink

Next ==
    \/ ReadConfigReadError
    \/ ReadConfigParseError
    \/ ReadConfigReturns
    \/ EnterEnvironment
    \/ LeaveEnvironment
    \/ StartJob
    \/ JobSettled
    \/ PassCompleted
    \/ MainNext
    \/ CacheHit
    \/ CacheMiss
    \/ MkdirFails
    \/ OpenAndRequest
    \/ Response
    \/ Data
    \/ End
    \/ RenameOk
    \/ RenameFails
    \/ RequestError
    \/ ErrorHandler

Spec == Init /\ [][Next]_vars

\* generateDownloadLink alone, on arguments drawn from bounded sets
Softwares == {"jdk", "redis", "postgresql", "mysql", "constructor", ""}

Platforms == {"linux", "windows", "darwin"}

Versions == {"5", "6", "17"}

Archs == {"amd64", "arm64", "x64"}

InitLink ==
    /\ configFile \in {c \in ConfigFiles : ~c.valid}
    /\ pc = "link"
    /\ pass = 1
    /\ config = NotLoaded
    /\ envIdx = 0
    /\ entryIdx = 0
    /\ attempted = <<>>
    /\ logged = <<>>
    /\ exitCode = -1
    /\ fatal = ""
    /\ files = <<>>
    /\ writers = EmptyBag
    /\ dl = IdleDownload
    /\ succeeded = {}
    /\ faults = 0
    /\ \E s \in Softwares, v \in Versions, p \in Platforms, a \in Archs :
        link = [NoLink EXCEPT !.software = s, !.version = v, !.platform = p, !.arch = a]

CallGenerateDownloadLink ==
    /\ pc = "link"
    /\ ~link.called
    /\ link' = [link EXCEPT !.called = TRUE,
                            !.result = generateDownloadLink(link.software, link.version,
                                                            link.platform, link.arch)]
    /\ UNCHANGED <<configFile, pc, pass, config, envIdx, entryIdx, attempted, logged,
                   exitCode, fatal, files, writers, dl, succeeded, faults>>

NextLink == CallGenerateDownloadLink

SpecLink == InitLink /\ [][NextLink]_vars

-----------------------------------------------------------------------------
(* Properties *)

SupportedSoftware == {"jdk", "redis", "postgresql"}

SupportedPlatforms == {"linux", "windows"}

\* C1: once a downloadFile call has resolved for a destination, a later call
\* for that destination resolves with the destination path in its first
\* step, having issued no HTTP request, opened no writer (so '<dest>.tmp' is
\* neither created nor truncated) and left every file as it was.
C1_Idempotent ==
    [][ (pc = "download" /\ dl.st = "check"
            /\ dl.dest \in succeeded /\ dl' # dl)
        => /\ dl'.promise = Resolved(dl.dest)
           /\ dl'.requests = 0
           /\ files' = files
           /\ writers' = writers ]_vars

\* a second call for a destination that an earlier call downloaded has returned
C1_Witness ==
    /\ dl.st = "settled"
    /\ dl.cacheHit
    /\ dl.promise = Resolved(dl.dest)
    /\ dl.dest \in DOMAIN files
    /\ files[dl.dest] = MaxChunks

\* C2: when downloadFile resolves for a destination that did not exist when
\* it was called (on a 200, directly or after 301/302 redirects), a file is
\* at the destination path, it holds the whole body, and nothing is at
\* '<destination>.tmp'.
C2_SuccessLeavesOnlyDestination ==
    (dl.promise.state = "resolved" /\ ~dl.cacheHit)
    => /\ dl.promise.path = dl.dest
       /\ dl.dest \in DOMAIN files
       /\ files[dl.dest] = MaxChunks
       /\ tempPath(dl.dest) \notin DOMAIN files

\* a download that followed a redirect has resolved
C2_Witness ==
    /\ dl.promise.state = "resolved"
    /\ ~dl.cacheHit
    /\ dl.redirects >= 1
    /\ dl.status = 200

\* C3: when the response status is neither 200 nor 301/302, downloadFile is
\* rejected with the HTTP-status error carrying that status, and no file is
\* at the destination path.
C3_BadStatusRejects ==
    (dl.status \notin {0, 200, 301, 302})
    => /\ dl.promise = Rejected("HTTPStatus", dl.status)
       /\ dl.dest \notin DOMAIN files

\* a 307 answer has been received
C3_Witness ==
    /\ dl.status = 307
    /\ dl.promise.state = "rejected"

C5_EveryJobAttempted ==
    LET EnvJobs(e) ==
            [j \in 1..Len(config.json.entries[e].value.entries) |-> <<e, j>>]
        Jobs[e \in 1..(Len(config.json.entries) + 1)] ==
            IF e > Len(config.json.entries) THEN <<>>
            ELSE EnvJobs(e) \o Jobs[e + 1]
    IN  (config.loaded /\ pc \in {"passEnd", "exit", "done"})
        => /\ attempted = Jobs[1]
           /\ [j \in 1..Len(logged) |-> logged[j].job] = attempted

\* C6: the process exits with a non-zero status only when reading or
\* JSON-parsing the config file failed.
C6_ExitOnlyOnConfigFailure ==
    (exitCode # -1 /\ exitCode # 0)
    => fatal \in {"ConfigReadError", "ConfigParseError"}

\* C7: generateDownloadLink throws exactly when the software is outside
\* {jdk, redis, postgresql} or the platform is outside {linux, windows}.
C7_ThrowsIffUnsupported ==
    link.called
    => (~link.result.ok <=> (link.software \notin SupportedSoftware
                             \/ link.platform \notin SupportedPlatforms))

\* C8: for supported software and platform, generateDownloadLink returns
\* '<prefix>/v<V>/<name>-<V>-<platform>-<arch><ext>', with name 'openjdk'
\* for jdk, ext '.zip' on windows and '.tar.gz' on linux, and V = '5' for
\* redis on windows and the requested version otherwise.
C8_UrlTemplate ==
    (link.called /\ link.software \in SupportedSoftware
                 /\ link.platform \in SupportedPlatforms)
    => LET V    == IF link.software = "redis" /\ link.platform = "windows"
                   THEN "5" ELSE link.version
           name == IF link.software = "jdk" THEN "openjdk" ELSE link.software
           ext  == IF link.platform = "windows" THEN ".zip" ELSE ".tar.gz"
       IN  /\ link.result.ok
           /\ link.result.url =
                downloadPrefixes[link.software] \o "/v" \o V \o "/" \o name \o "-"
                    \o V \o "-" \o link.platform \o "-" \o link.arch \o ext

\* redis on windows was resolved with a requested version other than 5
C8_Witness ==
    /\ link.called
    /\ link.software = "redis"
    /\ link.platform = "windows"
    /\ link.version = "17"
    /\ link.result.ok

\* C9: when the body was streamed completely and the rename failed,
\* downloadFile is rejected with the rename error, '<destination>.tmp' is
\* still there with the whole body, and nothing is at the destination.
C9_RenameFailureKeepsTemp ==
    (dl.promise.error.kind = "RenameError")
    => /\ dl.promise.state = "rejected"
       /\ dl.received = MaxChunks
       /\ tempPath(dl.dest) \in DOMAIN files
       /\ files[tempPath(dl.dest)] = MaxChunks
       /\ dl.dest \notin DOMAIN files

\* a rename has failed
C9_Witness ==
    /\ dl.st = "settled"
    /\ dl.promise = Rejected("RenameError", 0)

\* C10: a download is in progress only while the orchestrator awaits it, and
\* no path has more than one write stream open on it.
C10_OneWriterPerPath ==
    /\ dl.st # "idle" => pc = "download"
    /\ \A p \in BagToSet(writers) : CopiesIn(p, writers) <= 1

====
